---- MODULE Spec2Model ----
(***************************************************************************)
(* A model of lookback.models (agrc/historic-judicial-districts): the      *)
(* per-county change-date timeline (County.calc_change_dates,              *)
(* County.join_shapes_and_districts, County.add_extra_fields) and the      *)
(* per-district version reducer (District), and the loading of the two     *)
(* tables and the setting up of the counties (State.load_counties,         *)
(* State.load_districts, State.setup_counties, County.setup), and the      *)
(* State's run of both over its counties (State.calc_counties to           *)
(* State.combine_district_dicts).                                          *)
(*                                                                         *)
(* Dates are whole days, numbered 1..MaxDate; pandas' NaT is NaT.  A data  *)
(* frame is the sequence of its rows, a row a record of the columns the    *)
(* code reads.                                                             *)
(***************************************************************************)
EXTENDS Integers, Sequences, FiniteSets, TLC

VARIABLES
    pc,                    \* which method ran last
    shape_df,              \* County.shape_df
    district_df,           \* County.district_df
    change_dates_df,       \* County.change_dates_df
    joined_df,             \* County.joined_df
    output_df,             \* State.output_df, as handed to District(...)
    label,                 \* District.label
    district_records,      \* District.district_records
    unique_change_dates,   \* District.unique_change_dates
    row_key_and_versions,  \* District.row_key_and_versions
    versions_df,           \* District.versions_df
    versions_full_info_df, \* District.versions_full_info_df
    deduped_versions_df,   \* District.deduped_versions_df
    all_shapes_df,         \* State.all_shapes_df
    all_districts_df,      \* State.all_districts_df
    counties,              \* State.counties
    state_districts,       \* State.districts
    district_versions_df   \* State.district_versions_df

countyVars == <<shape_df, district_df, change_dates_df, joined_df>>

districtVars == <<output_df, label, district_records, unique_change_dates,
                  row_key_and_versions, versions_df, versions_full_info_df,
                  deduped_versions_df>>

stateVars == <<all_shapes_df, all_districts_df, counties, state_districts,
               district_versions_df>>

vars == <<pc, countyVars, districtVars, stateVars>>

----------------------------------------------------------------------------
(* Bounds of the model. *)

\* the days of the timeline are 1..MaxDate
MaxDate == 3

\* the most rows of one county's shape_df
MaxShapes == 2

\* the most rows of one county's district_df
MaxDistricts == 2

\* the most pairs of a shape_df row and a district_df row, when the catalogs
\* are set directly
MaxPairs == 4

\* the most rows of the state-wide table handed to a District
MaxRecords == 3

----------------------------------------------------------------------------
(* Values. *)

\* pd.NaT, the null date: every ordering comparison with it is False
NaT == -1

\* the text of a null key, str(nan)
NaN == "nan"

\* ChangeDate's default for every field but the date
NA == "n/a"

Dates == 1..MaxDate

pd_isnull(x) == x = NaT

\* a <= b on timestamps: False when either side is NaT
Le(a, b) == ~pd_isnull(a) /\ ~pd_isnull(b) /\ a <= b

\* a < b on timestamps: False when either side is NaT
Lt(a, b) == ~pd_isnull(a) /\ ~pd_isnull(b) /\ a < b

\* Python's max(a, b): b when b > a, else a; with a NaT no comparison is True
PyMax(a, b) == IF Lt(a, b) THEN b ELSE a

\* date.strftime('%Y-%m-%d'): the text of a day
strftime(d) == ToString(d)

Range(s) == {s[i] : i \in 1..Len(s)}

Min(S) == CHOOSE x \in S : \A y \in S : x <= y

RECURSIVE SortedSeq(_)
\* the elements of a set of days, ascending
SortedSeq(S) == IF S = {} THEN <<>> ELSE <<Min(S)>> \o SortedSeq(S \ {Min(S)})

\* shape_key: ID + '_S' + VERSION, where ID is 'uts_<name>' or 'utt_<name>'
ShapeKey(prefix, version) == prefix \o "_co_S" \o ToString(version)

\* district_key: CountyName.casefold() + '_D' + Version
DistrictKey(version) == "co_D" \o ToString(version)

\* 'utt_' in shape_key
HasUtt(shape_key) == \E v \in 1..(MaxShapes + 1) : shape_key = ShapeKey("utt", v)

----------------------------------------------------------------------------
(* The catalogs of one county, as County.setup leaves them. *)

\* the ID prefixes of the boundaries shapefile: a state-era or a territorial county
Prefixes == {"uts", "utt"}

\* END_DATE / EndDate of a row that starts on day s
EndsFrom(s) == {NaT} \cup {d \in Dates : d >= s}

\* the NewDistrict of a county's n-th district version
NewDistrictOf(version) == ToString(version)

\* the (start, end) pairs of a catalog row
Intervals == {x \in Dates \X (Dates \cup {NaT}) : x[2] \in EndsFrom(x[1])}

\* rows sorted by their start dates, which differ within one county
Ascending(g) == \A i \in 1..(Len(g) - 1) : g[i][1] < g[i + 1][1]

\* County.setup: the rows of all_shapes_df of a county, indexed and sorted by
\* START_DATE; all rows carry the ID prefix of the county (utt: a territorial
\* county, extinct since)
ShapeCatalog(p, g) ==
    [i \in 1..Len(g) |->
        [shape_key |-> ShapeKey(p, i), START_DATE |-> g[i][1], END_DATE |-> g[i][2]]]

\* County.setup: the rows of all_districts_df of a county, indexed and sorted
\* by StartDate
DistrictCatalog(g) ==
    [i \in 1..Len(g) |->
        [district_key |-> DistrictKey(i), StartDate |-> g[i][1], EndDate |-> g[i][2],
         NewDistrict |-> NewDistrictOf(i)]]

----------------------------------------------------------------------------
(* County.calc_change_dates *)

\* IndexUnion with the second index appended to the first (Index.append)
IndexUnionAppended(self, other) == self \o other

\* pd.Index.union(other), sort=None: self when other is empty or equal to
\* self, other when self is empty, else the sorted union of the values
IndexUnion(self, other) ==
    IF Len(other) = 0 \/ self = other THEN self
    ELSE IF Len(self) = 0 THEN other
    ELSE SortedSeq(Range(self) \cup Range(other))

\* the index of a catalog: its rows' start dates, in row order
ShapeIndex(rows) == [i \in 1..Len(rows) |-> rows[i].START_DATE]

DistrictIndex(rows) == [i \in 1..Len(rows) |-> rows[i].StartDate]

RECURSIVE ShapeLoopEndExclusive(_, _, _)
\* ShapeLoop with the end bound exclusive: date < END_DATE
ShapeLoopEndExclusive(rows, i, date) ==
    IF i > Len(rows) THEN NA
    ELSE IF Le(rows[i].START_DATE, date) /\ Lt(date, rows[i].END_DATE)
         THEN rows[i].shape_key
         ELSE ShapeLoopEndExclusive(rows, i + 1, date)

RECURSIVE ShapeLoopOpenEnded(_, _, _)
\* ShapeLoop that takes a row without END_DATE as lasting on
ShapeLoopOpenEnded(rows, i, date) ==
    IF i > Len(rows) THEN NA
    ELSE IF /\ Le(rows[i].START_DATE, date)
            /\ Le(date, rows[i].END_DATE) \/ pd_isnull(rows[i].END_DATE)
         THEN rows[i].shape_key
         ELSE ShapeLoopOpenEnded(rows, i + 1, date)

RECURSIVE ShapeLoop(_, _, _)
\* lines 517-521: the shape_key of the first row whose START_DATE..END_DATE
\* holds the date, the ChangeDate default when the loop ends without a break
ShapeLoop(rows, i, date) ==
    IF i > Len(rows) THEN NA
    ELSE IF Le(rows[i].START_DATE, date) /\ Le(date, rows[i].END_DATE)
         THEN rows[i].shape_key
         ELSE ShapeLoop(rows, i + 1, date)

\* what a district row writes into the ChangeDate: NewDistrict and district_key
Assigned(row) == [district_number |-> row.NewDistrict, district_version |-> row.district_key]

Unassigned == [district_number |-> NA, district_version |-> NA]

RECURSIVE DistrictLoopOpenBreaks(_, _, _, _, _)
\* DistrictLoop with a break after the open-ended match (first match wins)
DistrictLoopOpenBreaks(rows, i, date, first_district_date, cur) ==
    IF i > Len(rows) THEN cur
    ELSE LET district_row == rows[i]
             first == IF Lt(district_row.StartDate, first_district_date)
                      THEN district_row.StartDate
                      ELSE first_district_date
         IN  IF Le(district_row.StartDate, date) /\ Le(date, district_row.EndDate)
             THEN Assigned(district_row)
             ELSE IF /\ district_row = rows[Len(rows)]
                     /\ pd_isnull(district_row.EndDate)
                     /\ Lt(first, date)
             THEN Assigned(district_row)
             ELSE IF Le(district_row.StartDate, date) /\ pd_isnull(district_row.EndDate)
             THEN Assigned(district_row)
             ELSE DistrictLoopOpenBreaks(rows, i + 1, date, first, cur)

RECURSIVE DistrictLoopNoBreak(_, _, _, _, _)
\* DistrictLoop without the break after the exact match: a later open-ended
\* row overrides it
DistrictLoopNoBreak(rows, i, date, first_district_date, cur) ==
    IF i > Len(rows) THEN cur
    ELSE LET district_row == rows[i]
             first == IF Lt(district_row.StartDate, first_district_date)
                      THEN district_row.StartDate
                      ELSE first_district_date
         IN  IF Le(district_row.StartDate, date) /\ Le(date, district_row.EndDate)
             THEN DistrictLoopNoBreak(rows, i + 1, date, first, Assigned(district_row))
             ELSE IF /\ district_row = rows[Len(rows)]
                     /\ pd_isnull(district_row.EndDate)
                     /\ Lt(first, date)
             THEN Assigned(district_row)
             ELSE IF Le(district_row.StartDate, date) /\ pd_isnull(district_row.EndDate)
             THEN DistrictLoopNoBreak(rows, i + 1, date, first, Assigned(district_row))
             ELSE DistrictLoopNoBreak(rows, i + 1, date, first, cur)

RECURSIVE DistrictLoopNotStrict(_, _, _, _, _)
\* DistrictLoop with the last-row check at change_date >= first_district_date
DistrictLoopNotStrict(rows, i, date, first_district_date, cur) ==
    IF i > Len(rows) THEN cur
    ELSE LET district_row == rows[i]
             first == IF Lt(district_row.StartDate, first_district_date)
                      THEN district_row.StartDate
                      ELSE first_district_date
         IN  IF Le(district_row.StartDate, date) /\ Le(date, district_row.EndDate)
             THEN Assigned(district_row)
             ELSE IF /\ district_row = rows[Len(rows)]
                     /\ pd_isnull(district_row.EndDate)
                     /\ Le(first, date)
             THEN Assigned(district_row)
             ELSE IF Le(district_row.StartDate, date) /\ pd_isnull(district_row.EndDate)
             THEN DistrictLoopNotStrict(rows, i + 1, date, first, Assigned(district_row))
             ELSE DistrictLoopNotStrict(rows, i + 1, date, first, cur)

RECURSIVE DistrictLoopFirstOpen(_, _, _, _, _)
\* DistrictLoop that keeps the first open-ended row it wrote instead of the last
DistrictLoopFirstOpen(rows, i, date, first_district_date, cur) ==
    IF i > Len(rows) THEN cur
    ELSE LET district_row == rows[i]
             first == IF Lt(district_row.StartDate, first_district_date)
                      THEN district_row.StartDate
                      ELSE first_district_date
         IN  IF Le(district_row.StartDate, date) /\ Le(date, district_row.EndDate)
             THEN Assigned(district_row)
             ELSE IF /\ district_row = rows[Len(rows)]
                     /\ pd_isnull(district_row.EndDate)
                     /\ Lt(first, date)
             THEN Assigned(district_row)
             ELSE IF /\ Le(district_row.StartDate, date)
                     /\ pd_isnull(district_row.EndDate)
                     /\ cur = Unassigned
             THEN DistrictLoopFirstOpen(rows, i + 1, date, first, Assigned(district_row))
             ELSE DistrictLoopFirstOpen(rows, i + 1, date, first, cur)

RECURSIVE DistrictLoop(_, _, _, _, _)
\* lines 527-552: the loop over the district rows, from row i on, with the
\* earliest start date seen so far and the assignment written so far
DistrictLoop(rows, i, date, first_district_date, cur) ==
    IF i > Len(rows) THEN cur
    ELSE LET district_row == rows[i]
             first == IF Lt(district_row.StartDate, first_district_date)
                      THEN district_row.StartDate
                      ELSE first_district_date
         IN  IF Le(district_row.StartDate, date) /\ Le(date, district_row.EndDate)
             THEN Assigned(district_row)
             ELSE IF /\ district_row = rows[Len(rows)]
                     /\ pd_isnull(district_row.EndDate)
                     /\ Lt(first, date)
             THEN Assigned(district_row)
             ELSE IF Le(district_row.StartDate, date) /\ pd_isnull(district_row.EndDate)
             THEN DistrictLoop(rows, i + 1, date, first, Assigned(district_row))
             ELSE DistrictLoop(rows, i + 1, date, first, cur)

\* lines 513-552: the ChangeDate of one date
ChangeDate(name, shapes, districts, date) ==
    LET district == DistrictLoop(districts, 1, date, districts[1].StartDate, Unassigned)
    IN  [change_date |-> date,
         county_name |-> name,
         county_version |-> ShapeLoop(shapes, 1, date),
         district_number |-> district.district_number,
         district_version |-> district.district_version]

\* line 510: the dates of the county
ChangeDates(shapes, districts) == IndexUnion(ShapeIndex(shapes), DistrictIndex(districts))

\* County.name
CountyName == "co"

\* lines 509-563: County.calc_change_dates; district_df_rows[0] raises
\* IndexError when there is a date and no district row
CalcChangeDates ==
    /\ pc = "setup"
    /\ LET dates == ChangeDates(shape_df, district_df)
       IN  IF Len(dates) > 0 /\ Len(district_df) = 0
           THEN /\ pc' = "raised"
                /\ UNCHANGED change_dates_df
           ELSE /\ pc' = "change_dates"
                /\ change_dates_df' =
                       [i \in 1..Len(dates) |->
                           ChangeDate(CountyName, shape_df, district_df, dates[i])]
    /\ UNCHANGED <<shape_df, district_df, joined_df, districtVars, stateVars>>

----------------------------------------------------------------------------
(* County.join_shapes_and_districts *)

\* KeysUnique of a merge without validate
KeysUniqueUnchecked(keys) == TRUE

\* validate='m:1': the join key is unique in the right table
KeysUnique(keys) == \A i, j \in 1..Len(keys) : keys[i] = keys[j] => i = j

\* the columns a left join leaves null when no row of the right table matches
NoShape == [shape_key |-> NaN, START_DATE |-> NaT, END_DATE |-> NaT]

NoDistrict == [district_key |-> NaN, StartDate |-> NaT, EndDate |-> NaT, NewDistrict |-> NaN]

\* the row of shape_df a change date joins to on county_version = shape_key
ShapeMatch(shapes, key) ==
    IF \E i \in 1..Len(shapes) : shapes[i].shape_key = key
    THEN shapes[CHOOSE i \in 1..Len(shapes) : shapes[i].shape_key = key]
    ELSE NoShape

\* DistrictMatch as an inner join would leave it: a row of the table always
DistrictMatchFirstRow(districts, key) ==
    IF \E i \in 1..Len(districts) : districts[i].district_key = key
    THEN districts[CHOOSE i \in 1..Len(districts) : districts[i].district_key = key]
    ELSE districts[1]

\* the row of district_df a change date joins to on district_version = district_key
DistrictMatch(districts, key) ==
    IF \E i \in 1..Len(districts) : districts[i].district_key = key
    THEN districts[CHOOSE i \in 1..Len(districts) : districts[i].district_key = key]
    ELSE NoDistrict

\* lines 572-587: one row of the two left joins
JoinedRow(cd, shapes, districts) ==
    LET s == ShapeMatch(shapes, cd.county_version)
        d == DistrictMatch(districts, cd.district_version)
    IN  [change_date |-> cd.change_date,
         county_name |-> cd.county_name,
         county_version |-> cd.county_version,
         district_number |-> cd.district_number,
         district_version |-> cd.district_version,
         shape_key |-> s.shape_key,
         START_DATE |-> s.START_DATE,
         END_DATE |-> s.END_DATE,
         district_key |-> d.district_key,
         StartDate |-> d.StartDate,
         EndDate |-> d.EndDate,
         NewDistrict |-> d.NewDistrict,
         COMBINED_DST_KEY |-> NaN,
         change_end_date |-> NaT]

\* lines 565-587: County.join_shapes_and_districts; a change_dates_df without
\* rows has no columns to join on (KeyError), a repeated key in the right
\* table fails the m:1 validation (MergeError)
JoinShapesAndDistricts ==
    /\ pc = "change_dates"
    /\ IF \/ Len(change_dates_df) = 0
          \/ ~KeysUnique([i \in 1..Len(shape_df) |-> shape_df[i].shape_key])
          \/ ~KeysUnique([i \in 1..Len(district_df) |-> district_df[i].district_key])
       THEN /\ pc' = "raised"
            /\ UNCHANGED joined_df
       ELSE /\ pc' = "joined"
            /\ joined_df' = [i \in 1..Len(change_dates_df) |->
                                JoinedRow(change_dates_df[i], shape_df, district_df)]
    /\ UNCHANGED <<shape_df, district_df, change_dates_df, districtVars, stateVars>>

----------------------------------------------------------------------------
(* County.add_extra_fields *)

\* FixChangeEndDates without the pd.isnull(change_end_date) test
FixChangeEndDatesOfAnyRow(change_end_date, shape_key, shape_end, district_end) ==
    IF HasUtt(shape_key) THEN PyMax(shape_end, district_end) ELSE change_end_date

\* FixChangeEndDates with the shape's end date in place of the later one
FixChangeEndDatesShapeEnd(change_end_date, shape_key, shape_end, district_end) ==
    IF pd_isnull(change_end_date) /\ HasUtt(shape_key)
    THEN shape_end
    ELSE change_end_date

\* FixChangeEndDates without the 'utt_' in shape_key test
FixChangeEndDatesOfAnyCounty(change_end_date, shape_key, shape_end, district_end) ==
    IF pd_isnull(change_end_date)
    THEN PyMax(shape_end, district_end)
    ELSE change_end_date

\* lines 65-87: _fix_change_end_dates
FixChangeEndDates(change_end_date, shape_key, shape_end, district_end) ==
    IF pd_isnull(change_end_date) /\ HasUtt(shape_key)
    THEN PyMax(shape_end, district_end)
    ELSE change_end_date

\* ShiftedEndDate with two days taken off
ShiftedEndDateTwoDays(rows, i) == IF i < Len(rows) THEN rows[i + 1].change_date - 2 ELSE NaT

\* ShiftedEndDate without the day taken off: the next row's change_date
ShiftedEndDateSameDay(rows, i) == IF i < Len(rows) THEN rows[i + 1].change_date ELSE NaT

\* line 600: change_date.shift(-1) - pd.Timedelta(days=1)
ShiftedEndDate(rows, i) == IF i < Len(rows) THEN rows[i + 1].change_date - 1 ELSE NaT

\* lines 594-597: '_'.join([number, date.strftime('%Y-%m-%d')])
CombinedDstKey(number, date) == number \o "_" \o strftime(date)

\* lines 589-609: County.add_extra_fields
AddExtraFields ==
    /\ pc = "joined"
    /\ pc' = "extra_fields"
    /\ joined_df' =
           [i \in 1..Len(joined_df) |->
               [joined_df[i] EXCEPT
                   !.COMBINED_DST_KEY = CombinedDstKey(joined_df[i].district_number,
                                                       joined_df[i].change_date),
                   !.change_end_date = FixChangeEndDates(ShiftedEndDate(joined_df, i),
                                                         joined_df[i].county_version,
                                                         joined_df[i].END_DATE,
                                                         joined_df[i].EndDate)]]
    /\ UNCHANGED <<shape_df, district_df, change_dates_df, districtVars, stateVars>>

----------------------------------------------------------------------------
(* One county, from County.setup to County.add_extra_fields. *)

NoState ==
    /\ all_shapes_df = <<>>
    /\ all_districts_df = <<>>
    /\ counties = <<>>
    /\ state_districts = <<>>
    /\ district_versions_df = <<>>

NoDistrictObject ==
    /\ output_df = <<>>
    /\ label = NA
    /\ district_records = <<>>
    /\ unique_change_dates = <<>>
    /\ row_key_and_versions = <<>>
    /\ versions_df = <<>>
    /\ versions_full_info_df = <<>>
    /\ deduped_versions_df = <<>>

Init ==
    /\ pc = "setup"
    /\ \E p \in Prefixes, n \in 0..MaxShapes :
           \E g \in {h \in [1..n -> Intervals] : Ascending(h)} :
               shape_df = ShapeCatalog(p, g)
    /\ \E n \in 1..MaxDistricts :
           \E g \in {h \in [1..n -> Intervals] : Ascending(h)} :
               district_df = DistrictCatalog(g)
    /\ change_dates_df = <<>>
    /\ joined_df = <<>>
    /\ NoDistrictObject
    /\ NoState

Next ==
    \/ CalcChangeDates
    \/ JoinShapesAndDistricts
    \/ AddExtraFields

Spec == Init /\ [][Next]_vars

----------------------------------------------------------------------------
(* A County whose shape_df and district_df are set directly, as the tests
   set them: rows in any order, overlapping or not, either table empty. *)

\* no value of an index is there twice
Distinct(index) == \A i, j \in 1..Len(index) : index[i] = index[j] => i = j

\* a shape_df whose rows all have the shape_key of version 1
ShapeCatalogOneVersion(p, g) ==
    [i \in 1..Len(g) |->
        [shape_key |-> ShapeKey(p, 1), START_DATE |-> g[i][1], END_DATE |-> g[i][2]]]

\* a district_df whose rows all have the district_key of version 1
DistrictCatalogOneVersion(g) ==
    [i \in 1..Len(g) |->
        [district_key |-> DistrictKey(1), StartDate |-> g[i][1], EndDate |-> g[i][2],
         NewDistrict |-> NewDistrictOf(i)]]

\* the start dates of the rows, in row order
Starts(g) == [i \in 1..Len(g) |-> g[i][1]]

\* a start date is repeated within a table only where Index.union returns an
\* operand as it is (the other index empty, or the two equal); what it
\* leaves of repeated values otherwise differs between pandas versions
UnionIsDefined(g, h) ==
    \/ Distinct(Starts(g)) /\ Distinct(Starts(h))
    \/ Len(g) = 0
    \/ Len(h) = 0
    \/ Starts(g) = Starts(h)

InitGiven ==
    /\ pc = "setup"
    /\ \E n \in 0..MaxShapes, m \in 0..MaxDistricts :
           /\ n * m <= MaxPairs
           /\ \E g \in [1..n -> Intervals], h \in [1..m -> Intervals] :
                  /\ UnionIsDefined(g, h)
                  /\ shape_df \in {ShapeCatalog("uts", g), ShapeCatalogOneVersion("uts", g)}
                  /\ district_df \in {DistrictCatalog(h), DistrictCatalogOneVersion(h)}
    /\ change_dates_df = <<>>
    /\ joined_df = <<>>
    /\ NoDistrictObject
    /\ NoState

SpecGiven == InitGiven /\ [][Next]_vars

----------------------------------------------------------------------------
(* District: the state-wide table it is built from. *)

\* what a row of State.output_df is made of: the district version of its
\* county, and the dates County.add_extra_fields leaves: the row ends the day
\* before a later change date, or has no end
OutputKinds ==
    {k \in [version : 1..2, CHANGE_DATE : Dates, CHANGE_END_DATE : Dates \cup {NaT}] :
        \/ k.CHANGE_END_DATE = NaT
        \/ k.CHANGE_DATE <= k.CHANGE_END_DATE /\ k.CHANGE_END_DATE < MaxDate}

\* the i-th row of State.output_df, with the columns District reads; each row
\* has its own shape version
OutputRow(i, k) ==
    [SHP_KEY |-> ShapeKey("uts", i),
     DST_KEY |-> DistrictKey(k.version),
     DST_NUMBER |-> NewDistrictOf(k.version),
     CHANGE_DATE |-> k.CHANGE_DATE,
     CHANGE_END_DATE |-> k.CHANGE_END_DATE]

----------------------------------------------------------------------------
(* District.__init__ *)

RECURSIVE Unique(_)
\* Series.unique(): the distinct values, in order of first appearance
Unique(s) ==
    IF s = <<>> THEN <<>>
    ELSE LET rest == Unique(SubSeq(s, 1, Len(s) - 1))
         IN  IF s[Len(s)] \in Range(rest) THEN rest ELSE Append(rest, s[Len(s)])

\* line 654: joined_df[joined_df['DST_NUMBER'] == self.label]
DistrictRecords(joined, number) == SelectSeq(joined, LAMBDA r : r.DST_NUMBER = number)

\* DistrictUniqueChangeDates over the rows of the district alone
DistrictUniqueChangeDatesOfDistrict(joined, number) ==
    Unique([i \in 1..Len(DistrictRecords(joined, number)) |->
               DistrictRecords(joined, number)[i].CHANGE_DATE])

\* line 655: list(joined_df['CHANGE_DATE'].unique()), over the whole table
DistrictUniqueChangeDates(joined, number) ==
    Unique([i \in 1..Len(joined) |-> joined[i].CHANGE_DATE])

\* lines 321-324, 652-659: District(number, self.output_df), for one of the
\* DST_NUMBER values of the table
DistrictInit(number) ==
    /\ pc = "output"
    /\ pc' = "district"
    /\ label' = number
    /\ district_records' = DistrictRecords(output_df, number)
    /\ unique_change_dates' = DistrictUniqueChangeDates(output_df, number)
    /\ UNCHANGED <<output_df, row_key_and_versions, versions_df,
                   versions_full_info_df, deduped_versions_df, countyVars, stateVars>>

----------------------------------------------------------------------------
(* District.find_records_versions *)

\* lines 669-672: str(shp_key) + '__' + str(dst_key)
UniqueRowKey(shp_key, dst_key) == shp_key \o "__" \o dst_key

RECURSIVE GetUniqueDistrictVersionsEndedOnly(_, _, _)
\* GetUniqueDistrictVersions without the second check (no end date)
GetUniqueDistrictVersionsEndedOnly(unique_dates, start_date, end_date) ==
    IF unique_dates = <<>> THEN <<>>
    ELSE LET date == Head(unique_dates)
             rest == GetUniqueDistrictVersionsEndedOnly(Tail(unique_dates), start_date, end_date)
         IN  IF Le(start_date, date) /\ Le(date, end_date)
             THEN <<date>> \o rest
             ELSE rest

RECURSIVE GetUniqueDistrictVersions(_, _, _)
\* lines 740-767: District._get_unique_district_versions
GetUniqueDistrictVersions(unique_dates, start_date, end_date) ==
    IF unique_dates = <<>> THEN <<>>
    ELSE LET date == Head(unique_dates)
             rest == GetUniqueDistrictVersions(Tail(unique_dates), start_date, end_date)
         IN  IF Le(start_date, date) /\ Le(date, end_date)
             THEN <<date>> \o rest
             ELSE IF Le(start_date, date) /\ pd_isnull(end_date)
             THEN <<date>> \o rest
             ELSE rest

\* a dict as the sequence of its items, in insertion order: setting a key
\* that is there replaces its value where it is
DictSet(dict, key, value) ==
    IF \E i \in 1..Len(dict) : dict[i].key = key
    THEN [i \in 1..Len(dict) |-> IF dict[i].key = key
                                  THEN [key |-> key, value |-> value]
                                  ELSE dict[i]]
    ELSE Append(dict, [key |-> key, value |-> value])

RECURSIVE RowKeyAndVersions(_, _, _)
\* lines 674-681: the dict comprehension over the first n records
RowKeyAndVersions(records, unique_dates, n) ==
    IF n = 0 THEN <<>>
    ELSE DictSet(RowKeyAndVersions(records, unique_dates, n - 1),
                 records[n].UNIQUE_ROW_KEY,
                 GetUniqueDistrictVersions(unique_dates,
                                           records[n].CHANGE_DATE,
                                           records[n].CHANGE_END_DATE))

\* lines 669-672: the records with their UNIQUE_ROW_KEY column
WithUniqueRowKey(records) ==
    [i \in 1..Len(records) |->
        [SHP_KEY |-> records[i].SHP_KEY,
         DST_KEY |-> records[i].DST_KEY,
         DST_NUMBER |-> records[i].DST_NUMBER,
         CHANGE_DATE |-> records[i].CHANGE_DATE,
         CHANGE_END_DATE |-> records[i].CHANGE_END_DATE,
         UNIQUE_ROW_KEY |-> UniqueRowKey(records[i].SHP_KEY, records[i].DST_KEY)]]

\* lines 661-681: District.find_records_versions
FindRecordsVersions ==
    /\ pc = "district"
    /\ pc' = "versions_found"
    /\ district_records' = WithUniqueRowKey(district_records)
    /\ row_key_and_versions' =
           RowKeyAndVersions(WithUniqueRowKey(district_records), unique_change_dates,
                             Len(district_records))
    /\ UNCHANGED <<output_df, label, unique_change_dates, versions_df,
                   versions_full_info_df, deduped_versions_df, countyVars, stateVars>>

----------------------------------------------------------------------------
(* District.build_versions_dataframe *)

\* DstVersionKey without the date: the label alone
DstVersionKeyOfLabel(number, change_date) == number

\* line 691: f'{self.label}_{pd.to_datetime(change_date).strftime("%Y-%m-%d")}'
DstVersionKey(number, change_date) == number \o "_" \o strftime(change_date)

\* lines 688-692: the tuples of one row key
VersionsOf(number, item) ==
    [j \in 1..Len(item.value) |->
        [UNIQUE_ROW_KEY |-> item.key,
         DST_VERSION_KEY |-> DstVersionKey(number, item.value[j]),
         CHANGE_DATE_IN_DST |-> item.value[j]]]

RECURSIVE Versions(_, _, _)
\* lines 686-692: the tuples of the first n items of the dict
Versions(number, dict, n) ==
    IF n = 0 THEN <<>>
    ELSE Versions(number, dict, n - 1) \o VersionsOf(number, dict[n])

\* lines 683-696: District.build_versions_dataframe
BuildVersionsDataframe ==
    /\ pc = "versions_found"
    /\ pc' = "versions_built"
    /\ versions_df' = Versions(label, row_key_and_versions, Len(row_key_and_versions))
    /\ UNCHANGED <<output_df, label, district_records, unique_change_dates,
                   row_key_and_versions, versions_full_info_df, deduped_versions_df,
                   countyVars, stateVars>>

----------------------------------------------------------------------------
(* District.join_version_information *)

\* the record a version tuple joins to on UNIQUE_ROW_KEY
RecordMatch(records, key) ==
    records[CHOOSE i \in 1..Len(records) : records[i].UNIQUE_ROW_KEY = key]

\* lines 731-738: one row of the left join
VersionFullInfo(version, records) ==
    LET r == RecordMatch(records, version.UNIQUE_ROW_KEY)
    IN  [UNIQUE_ROW_KEY |-> version.UNIQUE_ROW_KEY,
         DST_VERSION_KEY |-> version.DST_VERSION_KEY,
         CHANGE_DATE_IN_DST |-> version.CHANGE_DATE_IN_DST,
         SHP_KEY |-> r.SHP_KEY,
         DST_KEY |-> r.DST_KEY,
         DST_NUMBER |-> r.DST_NUMBER,
         CHANGE_DATE |-> r.CHANGE_DATE,
         CHANGE_END_DATE |-> r.CHANGE_END_DATE]

\* lines 728-738: District.join_version_information; two records with one
\* UNIQUE_ROW_KEY fail the m:1 validation (MergeError)
JoinVersionInformation ==
    /\ pc = "versions_built"
    /\ IF ~KeysUnique([i \in 1..Len(district_records) |-> district_records[i].UNIQUE_ROW_KEY])
       THEN /\ pc' = "raised"
            /\ UNCHANGED versions_full_info_df
       ELSE /\ pc' = "versions_joined"
            /\ versions_full_info_df' =
                   [i \in 1..Len(versions_df) |-> VersionFullInfo(versions_df[i], district_records)]
    /\ UNCHANGED <<output_df, label, district_records, unique_change_dates,
                   row_key_and_versions, versions_df, deduped_versions_df, countyVars, stateVars>>

----------------------------------------------------------------------------
(* District.remove_duplicate_version_rows *)

\* AllUniqueChangeDates without sorted(): the dates in order of first appearance
AllUniqueChangeDatesUnsorted(df) == Unique([i \in 1..Len(df) |-> df[i].CHANGE_DATE_IN_DST])

\* line 707: sorted(list(df['CHANGE_DATE_IN_DST'].unique()))
AllUniqueChangeDates(df) == SortedSeq({df[i].CHANGE_DATE_IN_DST : i \in 1..Len(df)})

\* lines 712-714: the UNIQUE_ROW_KEY column of the rows of one date
RowKeysAt(df, date) ==
    LET rows == SelectSeq(df, LAMBDA r : r.CHANGE_DATE_IN_DST = date)
    IN  [i \in 1..Len(rows) |-> rows[i].UNIQUE_ROW_KEY]

\* how often x is in a list
Count(list, x) == Cardinality({i \in 1..Len(list) : list[i] = x})

\* line 722: sorted(a) != sorted(b): the two lists differ as multisets
SortedDiffer(a, b) == \E x \in Range(a) \cup Range(b) : Count(a, x) # Count(b, x)

RECURSIVE PairwiseDatesFromFirst(_, _, _)
\* PairwiseDates with every date compared to the first date
PairwiseDatesFromFirst(df, all_dates, i) ==
    IF i > Len(all_dates) THEN <<>>
    ELSE (IF SortedDiffer(RowKeysAt(df, all_dates[1]), RowKeysAt(df, all_dates[i]))
          THEN <<all_dates[i]>>
          ELSE <<>>) \o PairwiseDatesFromFirst(df, all_dates, i + 1)

RECURSIVE PairwiseDatesCompared(_, _, _)
\* PairwiseDates with the dates compared in place of their lists of row keys
PairwiseDatesCompared(df, all_dates, i) ==
    IF i > Len(all_dates) THEN <<>>
    ELSE (IF all_dates[i - 1] # all_dates[i] THEN <<all_dates[i]>> ELSE <<>>)
             \o PairwiseDatesCompared(df, all_dates, i + 1)

RECURSIVE PairwiseDatesOnNewKeys(_, _, _)
\* PairwiseDates that takes a date only for a row key the date before lacks
PairwiseDatesOnNewKeys(df, all_dates, i) ==
    IF i > Len(all_dates) THEN <<>>
    ELSE (IF Range(RowKeysAt(df, all_dates[i])) \ Range(RowKeysAt(df, all_dates[i - 1])) # {}
          THEN <<all_dates[i]>>
          ELSE <<>>) \o PairwiseDatesOnNewKeys(df, all_dates, i + 1)

RECURSIVE PairwiseDates(_, _, _)
\* lines 47-62, 721-723: the dates, from the i-th on, whose row keys differ
\* from those of the date before
PairwiseDates(df, all_dates, i) ==
    IF i > Len(all_dates) THEN <<>>
    ELSE (IF SortedDiffer(RowKeysAt(df, all_dates[i - 1]), RowKeysAt(df, all_dates[i]))
          THEN <<all_dates[i]>>
          ELSE <<>>) \o PairwiseDates(df, all_dates, i + 1)

\* lines 706-723: the dates remove_duplicate_version_rows keeps
KeptDates(df) ==
    LET all_unique_change_dates == AllUniqueChangeDates(df)
    IN  (IF RowKeysAt(df, all_unique_change_dates[1]) # <<>>
         THEN <<all_unique_change_dates[1]>>
         ELSE <<>>) \o PairwiseDates(df, all_unique_change_dates, 2)

\* RemoveDuplicateVersionRows with drop_duplicates on the date: one row of
\* each kept date
RemoveDuplicateVersionRowsOnePerDate ==
    /\ pc = "versions_joined"
    /\ IF Len(versions_full_info_df) = 0
       THEN /\ pc' = "raised"
            /\ UNCHANGED deduped_versions_df
       ELSE /\ pc' = "deduped"
            /\ LET dates_to_keep == Range(KeptDates(versions_full_info_df))
                   first(i) == \A j \in 1..(i - 1) :
                                   versions_full_info_df[j].CHANGE_DATE_IN_DST #
                                       versions_full_info_df[i].CHANGE_DATE_IN_DST
                   kept == {i \in 1..Len(versions_full_info_df) :
                               /\ versions_full_info_df[i].CHANGE_DATE_IN_DST \in dates_to_keep
                               /\ first(i)}
               IN  deduped_versions_df' =
                       [n \in 1..Cardinality(kept) |->
                           versions_full_info_df[
                               CHOOSE i \in kept : Cardinality({j \in kept : j <= i}) = n]]
    /\ UNCHANGED <<output_df, label, district_records, unique_change_dates,
                   row_key_and_versions, versions_df, versions_full_info_df, countyVars, stateVars>>

\* lines 698-726: District.remove_duplicate_version_rows; without a row
\* all_unique_change_dates[0] raises IndexError
RemoveDuplicateVersionRows ==
    /\ pc = "versions_joined"
    /\ IF Len(versions_full_info_df) = 0
       THEN /\ pc' = "raised"
            /\ UNCHANGED deduped_versions_df
       ELSE /\ pc' = "deduped"
            /\ LET dates_to_keep == Range(KeptDates(versions_full_info_df))
               IN  deduped_versions_df' =
                       SelectSeq(versions_full_info_df,
                                 LAMBDA r : r.CHANGE_DATE_IN_DST \in dates_to_keep)
    /\ UNCHANGED <<output_df, label, district_records, unique_change_dates,
                   row_key_and_versions, versions_df, versions_full_info_df, countyVars, stateVars>>

----------------------------------------------------------------------------
(* One district, from State.setup_districts to the end of
   State.calc_districts_versions. *)

NoCounty ==
    /\ shape_df = <<>>
    /\ district_df = <<>>
    /\ change_dates_df = <<>>
    /\ joined_df = <<>>

\* State.get_shape_district_info has filled output_df; the district numbers
\* are names, and the one of the first row is called NewDistrictOf(1)
InitDistrict ==
    /\ pc = "output"
    /\ \E n \in 1..MaxRecords : \E k \in [1..n -> OutputKinds] :
           /\ k[1].version = 1
           /\ output_df = [i \in 1..n |-> OutputRow(i, k[i])]
    /\ label = NA
    /\ district_records = <<>>
    /\ unique_change_dates = <<>>
    /\ row_key_and_versions = <<>>
    /\ versions_df = <<>>
    /\ versions_full_info_df = <<>>
    /\ deduped_versions_df = <<>>
    /\ NoCounty
    /\ NoState

NextDistrict ==
    \/ \E number \in {output_df[i].DST_NUMBER : i \in 1..Len(output_df)} : DistrictInit(number)
    \/ FindRecordsVersions
    \/ BuildVersionsDataframe
    \/ JoinVersionInformation
    \/ RemoveDuplicateVersionRows

SpecDistrict == InitDistrict /\ [][NextDistrict]_vars

----------------------------------------------------------------------------
(* The State, from State() to the end of State.setup_counties.  Names, IDs
   and keys are strings; of the columns of the two tables the model has the
   ones the three methods and County.setup read or write. *)

\* the most rows of the boundaries shapefile
MaxShapeRows == 1

\* the most rows of the districts csv
MaxDistrictRows == 2

\* the ID field of the shapefile's rows
ShapeIDs == {"uts_rich", "uts_saltlake"}

\* the CountyName field of the csv's rows
DistrictCountyNames == {"Rich", "Richland", "Salt Lake", "Great Salt Lake"}

\* s[i:i+1]
Char(s, i) == SubSeq(s, i, i)

UpperCase == "ABCDEFGHIJKLMNOPQRSTUVWXYZ"

LowerCase == "abcdefghijklmnopqrstuvwxyz"

RECURSIVE casefold(_)
\* str.casefold(), on the letters A-Z
casefold(s) ==
    IF Len(s) = 0 THEN s
    ELSE LET c == Char(s, 1)
             at == {k \in 1..Len(UpperCase) : Char(UpperCase, k) = c}
         IN  (IF at = {} THEN c ELSE Char(LowerCase, CHOOSE k \in at : TRUE))
                 \o casefold(SubSeq(s, 2, Len(s)))

RECURSIVE replace(_, _, _)
\* str.replace(old, new), old a single character
replace(s, old, new) ==
    IF Len(s) = 0 THEN s
    ELSE (IF Char(s, 1) = old THEN new ELSE Char(s, 1))
             \o replace(SubSeq(s, 2, Len(s)), old, new)

\* s.split(sep)[-1]: what follows the last sep, all of s when it has none
SplitLast(s, sep) ==
    LET at == {i \in 1..Len(s) : Char(s, i) = sep}
    IN  IF at = {} THEN s ELSE SubSeq(s, (CHOOSE i \in at : \A j \in at : j <= i) + 1, Len(s))

\* lines 20-25
create_county_key(name) ==
    LET cleaned_name == replace(replace(casefold(SplitLast(name, "_")), " ", ""), ".", "")
    IN  IF cleaned_name = "richland" THEN "rich" ELSE cleaned_name

\* Series.str.contains(pat) for one value, pat without regex metacharacters:
\* pat occurs somewhere in s
str_contains(s, pat) ==
    \E i \in 0..(Len(s) - Len(pat)) : SubSeq(s, i + 1, i + Len(pat)) = pat

\* Series.apply(create_county_key) and Series.str.casefold() work value by
\* value: what they give for each ID and each CountyName
county_key_of == [name \in ShapeIDs \cup DistrictCountyNames |-> create_county_key(name)]

casefold_of == [name \in DistrictCountyNames |-> casefold(name)]

\* the shapefile numbers the versions of an ID, the csv the versions of a
\* county under all its names (richland 1, rich 2): the row's is the number
\* of rows so far of its county
VersionOfRow(names, i) == Cardinality({j \in 1..i : names[j] = names[i]})

\* State.load_counties: a row of the shapefile with its shape_key and
\* county_key
ShapeRow(ID, VERSION, START_DATE) ==
    [ID |-> ID, VERSION |-> VERSION, START_DATE |-> START_DATE,
     shape_key |-> ID \o "_S" \o ToString(VERSION),
     county_key |-> county_key_of[ID]]

LoadCounties ==
    /\ pc = "state"
    /\ pc' = "load_counties"
    /\ \E n \in 1..MaxShapeRows :
           \E ids \in [1..n -> ShapeIDs], starts \in [1..n -> Dates] :
               all_shapes_df' =
                   [i \in 1..n |-> ShapeRow(ids[i], VersionOfRow(ids, i), starts[i])]
    /\ UNCHANGED <<all_districts_df, counties, state_districts, district_versions_df,
                   countyVars, districtVars>>

\* State.load_districts: a row of the csv with its county_key and
\* district_key
DistrictRow(name, Version, StartDate) ==
    [CountyName |-> name, Version |-> Version, StartDate |-> StartDate,
     county_key |-> county_key_of[name],
     district_key |-> casefold_of[name] \o "_D" \o ToString(Version)]

LoadDistricts ==
    /\ pc = "load_counties"
    /\ pc' = "load_districts"
    /\ \E n \in 0..MaxDistrictRows :
           \E names \in [1..n -> DistrictCountyNames], starts \in [1..n -> Dates] :
               all_districts_df' =
                   [i \in 1..n |->
                       DistrictRow(names[i],
                                   VersionOfRow([j \in 1..n |-> county_key_of[names[j]]], i),
                                   starts[i])]
    /\ UNCHANGED <<all_shapes_df, counties, state_districts, district_versions_df,
                   countyVars, districtVars>>

\* the orders of n rows
Orders(n) == {p \in [1..n -> 1..n] : \A i, j \in 1..n : p[i] = p[j] => i = j}

\* DataFrame.sort_index() of rows with the index of dates: the rows by
\* ascending date; rows of the same date in any order
SortIndex(rows, index) ==
    {[i \in 1..Len(rows) |-> rows[p[i]]] :
        p \in {q \in Orders(Len(rows)) :
                  \A i \in 1..(Len(rows) - 1) : index[q[i]] <= index[q[i + 1]]}}

\* County(name) after County.setup(counties_df, districts_df)
CountySetup(name, counties_df, districts_df) ==
    LET shapes == SelectSeq(counties_df, LAMBDA r : str_contains(r.county_key, name))
        districts == SelectSeq(districts_df, LAMBDA r : str_contains(r.county_key, name))
    IN  {[name |-> name, shape_df |-> s, district_df |-> d] :
            s \in SortIndex(shapes, [i \in 1..Len(shapes) |-> shapes[i].START_DATE]),
            d \in SortIndex(districts, [i \in 1..Len(districts) |-> districts[i].StartDate])}

\* county_names without .unique(): the column as it is
CountyKeyColumn(districts_df) ==
    [i \in 1..Len(districts_df) |-> districts_df[i].county_key]

\* line 195: all_districts_df['county_key'].unique()
CountyNames(districts_df) ==
    Unique([i \in 1..Len(districts_df) |-> districts_df[i].county_key])

RECURSIVE SetupEach(_, _, _)
\* lines 196-200: the counties the loop appends, one for each name in order
SetupEach(county_names, counties_df, districts_df) ==
    IF county_names = <<>> THEN {<<>>}
    ELSE {Append(before, county) :
             before \in SetupEach(SubSeq(county_names, 1, Len(county_names) - 1),
                                  counties_df, districts_df),
             county \in CountySetup(county_names[Len(county_names)],
                                    counties_df, districts_df)}

SetupCounties ==
    /\ pc = "load_districts"
    /\ pc' = "setup_counties"
    /\ counties' \in SetupEach(CountyNames(all_districts_df), all_shapes_df, all_districts_df)
    /\ UNCHANGED <<all_shapes_df, all_districts_df, state_districts, district_versions_df,
                   countyVars, districtVars>>

InitState ==
    /\ pc = "state"
    /\ NoState
    /\ NoCounty
    /\ NoDistrictObject

NextState ==
    \/ LoadCounties
    \/ LoadDistricts
    \/ SetupCounties

SpecState == InitState /\ [][NextState]_vars

----------------------------------------------------------------------------
(* The State, from State.calc_counties to State.combine_district_dicts: the
   counties of State.counties one after the other, their rows appended to
   output_df, and every district of State.districts run over that table. *)

\* County(name) after County.setup, with the two tables it has yet to make
CountyObject(name, shapes, district_rows) ==
    [name |-> name, shape_df |-> shapes, district_df |-> district_rows,
     change_dates_df |-> <<>>, joined_df |-> <<>>]

\* a second county: one boundary from day 2 to the last day, and in
\* district 1 from day 2 on
Neighbour ==
    CountyObject("ct",
                 <<[shape_key |-> "uts_ct_S1", START_DATE |-> 2, END_DATE |-> MaxDate]>>,
                 <<[district_key |-> "ct_D1", StartDate |-> 2, EndDate |-> NaT,
                    NewDistrict |-> NewDistrictOf(1)]>>)

\* line 525: district_df_rows[0] raises IndexError when the county has a date
\* and no district row
CalcChangeDatesRaises(county) ==
    /\ Len(ChangeDates(county.shape_df, county.district_df)) > 0
    /\ Len(county.district_df) = 0

\* lines 509-563: the change_dates_df of a county
CountyChangeDatesDf(county) ==
    LET dates == ChangeDates(county.shape_df, county.district_df)
    IN  [i \in 1..Len(dates) |->
            ChangeDate(county.name, county.shape_df, county.district_df, dates[i])]

\* lines 211-216: State.calc_counties
CalcCounties ==
    /\ pc = "setup_counties"
    /\ IF \E i \in 1..Len(counties) : CalcChangeDatesRaises(counties[i])
       THEN /\ pc' = "raised"
            /\ UNCHANGED counties
       ELSE /\ pc' = "calc_counties"
            /\ counties' =
                   [i \in 1..Len(counties) |->
                       [counties[i] EXCEPT !.change_dates_df = CountyChangeDatesDf(counties[i])]]
    /\ UNCHANGED <<all_shapes_df, all_districts_df, state_districts, district_versions_df,
                   countyVars, districtVars>>

\* lines 565-587: join_shapes_and_districts of a county raises (KeyError,
\* MergeError)
JoinRaises(county) ==
    \/ Len(county.change_dates_df) = 0
    \/ ~KeysUnique([i \in 1..Len(county.shape_df) |-> county.shape_df[i].shape_key])
    \/ ~KeysUnique([i \in 1..Len(county.district_df) |-> county.district_df[i].district_key])

\* lines 565-587: the joined_df of a county
CountyJoinedDf(county) ==
    [i \in 1..Len(county.change_dates_df) |->
        JoinedRow(county.change_dates_df[i], county.shape_df, county.district_df)]

\* lines 589-609: a joined_df after add_extra_fields
ExtraFields(joined) ==
    [i \in 1..Len(joined) |->
        [joined[i] EXCEPT
            !.COMBINED_DST_KEY = CombinedDstKey(joined[i].district_number,
                                                joined[i].change_date),
            !.change_end_date = FixChangeEndDates(ShiftedEndDate(joined, i),
                                                  joined[i].county_version,
                                                  joined[i].END_DATE,
                                                  joined[i].EndDate)]]

\* lines 237-239: a county after join_shapes_and_districts and add_extra_fields
CountyJoined(county) ==
    [county EXCEPT !.joined_df = ExtraFields(CountyJoinedDf(county))]

RECURSIVE Appended(_, _)
\* lines 236-240: the joined_df of the first n counties, one after the other
Appended(cs, n) == IF n = 0 THEN <<>> ELSE Appended(cs, n - 1) \o cs[n].joined_df

\* lines 242-264: the columns District reads, under their new names
Renamed(r) ==
    [SHP_KEY |-> r.shape_key,
     DST_KEY |-> r.district_key,
     DST_NUMBER |-> r.district_number,
     CHANGE_DATE |-> r.change_date,
     CHANGE_END_DATE |-> r.change_end_date]

\* lines 235-264: output_df of counties that have their joined_df
OutputDf(cs) ==
    LET rows == Appended(cs, Len(cs))
    IN  [i \in 1..Len(rows) |-> Renamed(rows[i])]

\* lines 231-264: State.get_shape_district_info
GetShapeDistrictInfo ==
    /\ pc = "calc_counties"
    /\ IF \E i \in 1..Len(counties) : JoinRaises(counties[i])
       THEN /\ pc' = "raised"
            /\ UNCHANGED <<counties, output_df>>
       ELSE /\ pc' = "get_shape_district_info"
            /\ counties' = [i \in 1..Len(counties) |-> CountyJoined(counties[i])]
            /\ output_df' = OutputDf([i \in 1..Len(counties) |-> CountyJoined(counties[i])])
    /\ UNCHANGED <<all_shapes_df, all_districts_df, state_districts, district_versions_df,
                   countyVars, label, district_records, unique_change_dates,
                   row_key_and_versions, versions_df, versions_full_info_df,
                   deduped_versions_df>>

\* lines 652-659: District(number, joined_df)
DistrictObject(number, joined) ==
    [label |-> number,
     district_records |-> DistrictRecords(joined, number),
     unique_change_dates |-> DistrictUniqueChangeDates(joined, number),
     row_key_and_versions |-> <<>>,
     versions_df |-> <<>>,
     versions_full_info_df |-> <<>>,
     deduped_versions_df |-> <<>>]

\* line 321: self.output_df['DST_NUMBER'].unique()
DistrictNumbers(output) == Unique([i \in 1..Len(output) |-> output[i].DST_NUMBER])

\* lines 321-324: the districts the loop appends
Districts(output) ==
    [k \in 1..Len(DistrictNumbers(output)) |-> DistrictObject(DistrictNumbers(output)[k], output)]

\* lines 316-324: State.setup_districts
SetupDistricts ==
    /\ pc = "get_shape_district_info"
    /\ pc' = "setup_districts"
    /\ state_districts' = Districts(output_df)
    /\ UNCHANGED <<all_shapes_df, all_districts_df, counties, district_versions_df,
                   countyVars, districtVars>>

\* lines 661-696: a district after find_records_versions and
\* build_versions_dataframe
VersionsBuiltOf(district) ==
    LET records == WithUniqueRowKey(district.district_records)
        dict == RowKeyAndVersions(records, district.unique_change_dates, Len(records))
    IN  [district EXCEPT !.district_records = records,
                         !.row_key_and_versions = dict,
                         !.versions_df = Versions(district.label, dict, Len(dict))]

\* lines 728-738: join_version_information of a district raises MergeError
MergeRaises(district) ==
    LET records == VersionsBuiltOf(district).district_records
    IN  ~KeysUnique([i \in 1..Len(records) |-> records[i].UNIQUE_ROW_KEY])

\* lines 728-738: a district after join_version_information
VersionsJoinedOf(district) ==
    LET built == VersionsBuiltOf(district)
    IN  [built EXCEPT !.versions_full_info_df =
            [i \in 1..Len(built.versions_df) |->
                VersionFullInfo(built.versions_df[i], built.district_records)]]

\* line 717: all_unique_change_dates[0] of a district raises IndexError
IndexRaises(district) == Len(VersionsJoinedOf(district).versions_full_info_df) = 0

\* lines 698-726: a district after remove_duplicate_version_rows
DedupedOf(district) ==
    LET joined == VersionsJoinedOf(district)
        dates_to_keep == Range(KeptDates(joined.versions_full_info_df))
    IN  [joined EXCEPT !.deduped_versions_df =
            SelectSeq(joined.versions_full_info_df,
                      LAMBDA r : r.CHANGE_DATE_IN_DST \in dates_to_keep)]

\* a method of the district raises
DistrictRaises(district) == MergeRaises(district) \/ IndexRaises(district)

\* the district where a method has raised: as the methods before have left it
DistrictRaised(district) ==
    IF MergeRaises(district) THEN VersionsBuiltOf(district) ELSE VersionsJoinedOf(district)

\* lines 326-333: State.calc_districts_versions; the loop ends at the first
\* district where a method raises
CalcDistrictsVersions ==
    /\ pc = "setup_districts"
    /\ IF \E k \in 1..Len(state_districts) : DistrictRaises(state_districts[k])
       THEN LET failed == Min({k \in 1..Len(state_districts) :
                                  DistrictRaises(state_districts[k])})
            IN  /\ pc' = "raised"
                /\ state_districts' =
                       [k \in 1..Len(state_districts) |->
                           IF k < failed THEN DedupedOf(state_districts[k])
                           ELSE IF k = failed THEN DistrictRaised(state_districts[k])
                           ELSE state_districts[k]]
       ELSE /\ pc' = "calc_districts_versions"
            /\ state_districts' =
                   [k \in 1..Len(state_districts) |-> DedupedOf(state_districts[k])]
    /\ UNCHANGED <<all_shapes_df, all_districts_df, counties, district_versions_df,
                   countyVars, districtVars>>

RECURSIVE DistrictVersionsDf(_, _)
\* lines 342-344: the deduped_versions_df of the first n districts, one after
\* the other
DistrictVersionsDf(ds, n) ==
    IF n = 0 THEN <<>> ELSE DistrictVersionsDf(ds, n - 1) \o ds[n].deduped_versions_df

\* lines 335-344: State.combine_district_dicts
CombineDistrictDicts ==
    /\ pc = "calc_districts_versions"
    /\ pc' = "combine_district_dicts"
    /\ district_versions_df' = DistrictVersionsDf(state_districts, Len(state_districts))
    /\ UNCHANGED <<all_shapes_df, all_districts_df, counties, state_districts,
                   countyVars, districtVars>>

\* State.setup_counties has made the counties: one with any catalogs, alone
\* or before or after a second county
InitPipeline ==
    /\ pc = "setup_counties"
    /\ \E p \in Prefixes, n \in 0..MaxShapes, m \in 1..MaxDistricts :
           /\ n * m <= MaxPairs
           /\ \E g \in {h \in [1..n -> Intervals] : Ascending(h)},
                 e \in {h \in [1..m -> Intervals] : Ascending(h)} :
                  LET county == CountyObject(CountyName, ShapeCatalog(p, g), DistrictCatalog(e))
                  IN  counties \in {<<county>>, <<county, Neighbour>>, <<Neighbour, county>>}
    /\ all_shapes_df = <<>>
    /\ all_districts_df = <<>>
    /\ state_districts = <<>>
    /\ district_versions_df = <<>>
    /\ NoCounty
    /\ NoDistrictObject

NextPipeline ==
    \/ CalcCounties
    \/ GetShapeDistrictInfo
    \/ SetupDistricts
    \/ CalcDistrictsVersions
    \/ CombineDistrictDicts

SpecPipeline == InitPipeline /\ [][NextPipeline]_vars

----------------------------------------------------------------------------

(* Claims about County.calc_change_dates. *)

\* calc_change_dates has returned
Calculated == pc \in {"change_dates", "joined", "extra_fields"}

\* the change records calc_change_dates left
Records == {change_dates_df[i] : i \in 1..Len(change_dates_df)}

\* the rows of a catalog that hold day D between their two bounds
ShapeCovers(D) ==
    {i \in 1..Len(shape_df) :
        /\ shape_df[i].START_DATE <= D
        /\ shape_df[i].END_DATE # NaT
        /\ D <= shape_df[i].END_DATE}

DistrictCovers(D) ==
    {i \in 1..Len(district_df) :
        /\ district_df[i].StartDate <= D
        /\ district_df[i].EndDate # NaT
        /\ D <= district_df[i].EndDate}

\* the open-ended district rows that have started by day D
DistrictOpen(D) ==
    {i \in 1..Len(district_df) :
        district_df[i].StartDate <= D /\ district_df[i].EndDate = NaT}

Max(S) == CHOOSE x \in S : \A y \in S : x >= y

EarliestStart == Min({district_df[i].StartDate : i \in 1..Len(district_df)})

\* the record carries the label and the key of district row i
Carries(r, i) ==
    /\ r.district_number = district_df[i].NewDistrict
    /\ r.district_version = district_df[i].district_key

IsSentinel(r) == r.district_number = NA /\ r.district_version = NA

\* rule (b): nothing covers D, the last row is open-ended, D is after the earliest start
RuleB(D) ==
    /\ DistrictCovers(D) = {}
    /\ district_df[Len(district_df)].EndDate = NaT
    /\ D > EarliestStart

\* C1: the change dates are exactly the distinct start dates of the two
\* catalogs, strictly ascending: none repeated, none missing, none extra
C1_ChangeDatesAreTheDistinctStarts ==
    Calculated =>
        /\ \A i \in 1..(Len(change_dates_df) - 1) :
               change_dates_df[i].change_date < change_dates_df[i + 1].change_date
        /\ {r.change_date : r \in Records} =
               {shape_df[i].START_DATE : i \in 1..Len(shape_df)}
                   \cup {district_df[i].StartDate : i \in 1..Len(district_df)}

\* C1's case: a start date shared by both catalogs, one only in each
C1_Witness ==
    /\ pc = "change_dates"
    /\ \E i \in 1..Len(shape_df), j \in 1..Len(district_df) :
           shape_df[i].START_DATE = district_df[j].StartDate
    /\ \E i \in 1..Len(shape_df) : \A j \in 1..Len(district_df) :
           shape_df[i].START_DATE # district_df[j].StartDate
    /\ \E j \in 1..Len(district_df) : \A i \in 1..Len(shape_df) :
           shape_df[i].START_DATE # district_df[j].StartDate
    /\ Len(change_dates_df) = MaxDate

\* C2: when district rows hold D between start and a non-null end, the record
\* for D carries the first of them, also after an open-ended row that started by D
C2_FirstExactMatchWins ==
    Calculated =>
        \A r \in Records :
            DistrictCovers(r.change_date) # {} =>
                Carries(r, Min(DistrictCovers(r.change_date)))

\* C2's case (the rename): an open-ended row, then a bounded row that holds D
C2_Witness ==
    /\ pc = "change_dates"
    /\ \E r \in Records :
           /\ DistrictCovers(r.change_date) # {}
           /\ \E j \in DistrictOpen(r.change_date) : j < Min(DistrictCovers(r.change_date))
           /\ Carries(r, Min(DistrictCovers(r.change_date)))

\* C3 as claimed: whenever an open-ended row has started by D, the record for
\* D carries such an open-ended row
C3_OpenEndedAlwaysOverrides ==
    Calculated =>
        \A r \in Records :
            DistrictOpen(r.change_date) # {} =>
                \E i \in DistrictOpen(r.change_date) : Carries(r, i)

\* C3 amended: an open-ended row that has started by D is written while the
\* scan goes on, and a later row's rule (a) or rule (b) replaces it: the record
\* is never the sentinel, it carries the first row that holds D exactly if one
\* does, else the last row if rule (b) applies, else the last such open-ended row
C3_OpenEndedIsTentative ==
    Calculated =>
        \A r \in Records :
            DistrictOpen(r.change_date) # {} =>
                /\ ~IsSentinel(r)
                /\ IF DistrictCovers(r.change_date) # {}
                   THEN Carries(r, Min(DistrictCovers(r.change_date)))
                   ELSE IF RuleB(r.change_date)
                   THEN Carries(r, Len(district_df))
                   ELSE Carries(r, Max(DistrictOpen(r.change_date)))

\* C3's case: an open-ended row has started by D and the record carries a
\* bounded row; at another date the record carries the open-ended row
C3_Witness ==
    /\ pc = "change_dates"
    /\ \E r \in Records :
           /\ DistrictOpen(r.change_date) # {}
           /\ \A i \in DistrictOpen(r.change_date) : ~Carries(r, i)
    /\ \E r \in Records :
           /\ DistrictOpen(r.change_date) # {}
           /\ ~RuleB(r.change_date)
           /\ Carries(r, Max(DistrictOpen(r.change_date)))

\* C4: the county_version of D is the shape_key of the first shape row with
\* START_DATE <= D <= END_DATE, the sentinel when there is none, and the
\* method does not raise
C4_FirstCoveringShapeOrSentinel ==
    /\ pc # "raised"
    /\ Calculated =>
           \A r \in Records :
               r.county_version =
                   IF ShapeCovers(r.change_date) # {}
                   THEN shape_df[Min(ShapeCovers(r.change_date))].shape_key
                   ELSE NA

\* C4's case: a date two shape rows hold, one that ends on the date itself,
\* and a date no shape row holds
C4_Witness ==
    /\ pc = "change_dates"
    /\ \E r \in Records :
           /\ Cardinality(ShapeCovers(r.change_date)) = 2
           /\ shape_df[Min(ShapeCovers(r.change_date))].END_DATE = r.change_date
    /\ \E r \in Records : ShapeCovers(r.change_date) = {} /\ r.county_version = NA

\* C5: when nothing holds D exactly, the last district row is open-ended and
\* D is after the earliest start, the record carries the last row; when D is
\* not after the earliest start the last row is not taken for being last: the
\* record carries the last open-ended row started by D, the sentinel if none
C5_LastOpenRowAfterEarliestStart ==
    Calculated =>
        \A r \in Records :
            DistrictCovers(r.change_date) = {} =>
                IF RuleB(r.change_date)
                THEN Carries(r, Len(district_df))
                ELSE IF r.change_date <= EarliestStart
                THEN IF DistrictOpen(r.change_date) # {}
                     THEN Carries(r, Max(DistrictOpen(r.change_date)))
                     ELSE IsSentinel(r)
                ELSE TRUE

\* C5's case: rule (b) gives a last row that has not started by D; and at a
\* date not after the earliest start the open-ended last row is not taken
C5_Witness ==
    /\ pc = "change_dates"
    /\ \E r \in Records :
           /\ RuleB(r.change_date)
           /\ district_df[Len(district_df)].StartDate > r.change_date
           /\ Carries(r, Len(district_df))
    /\ \E r \in Records :
           /\ r.change_date <= EarliestStart
           /\ DistrictCovers(r.change_date) = {}
           /\ district_df[Len(district_df)].EndDate = NaT
           /\ ~Carries(r, Len(district_df))

----------------------------------------------------------------------------
(* Claims about County.add_extra_fields. *)

\* C6: every record but the last ends the day before the next record's
\* change date, whatever the ends of its shape and district rows, extinct or not
C6_EndIsDayBeforeNextChange ==
    pc = "extra_fields" =>
        \A i \in 1..(Len(joined_df) - 1) :
            joined_df[i].change_end_date = joined_df[i + 1].change_date - 1

\* C6's case: a record that is not the last, of an extinct county, whose shape
\* and district rows both end on other days than the record does
C6_Witness ==
    /\ pc = "extra_fields"
    /\ \E i \in 1..(Len(joined_df) - 1) :
           /\ HasUtt(joined_df[i].county_version)
           /\ joined_df[i].END_DATE # NaT
           /\ joined_df[i].EndDate # NaT
           /\ joined_df[i].END_DATE # joined_df[i].change_end_date
           /\ joined_df[i].EndDate # joined_df[i].change_end_date

----------------------------------------------------------------------------
(* Claims about District. *)

\* the UNIQUE_ROW_KEY of a row of the global table
RowKey(r) == r.SHP_KEY \o "__" \o r.DST_KEY

\* a row is a member on day d: it has begun, and has no end or has not ended
Active(r, d) ==
    /\ r.CHANGE_DATE <= d
    /\ r.CHANGE_END_DATE = NaT \/ d <= r.CHANGE_END_DATE

\* the rows of the global table with the label of the district
Members == {i \in 1..Len(output_df) : output_df[i].DST_NUMBER = label}

\* the composition of the district on day d, from the global table
Composition(d) == {RowKey(output_df[i]) : i \in {j \in Members : Active(output_df[j], d)}}

\* the change dates of the whole table
GlobalDates == {output_df[i].CHANGE_DATE : i \in 1..Len(output_df)}

\* the row keys a table of version tuples has on day d
KeySetAt(df, d) == {df[i].UNIQUE_ROW_KEY : i \in {j \in 1..Len(df) : df[j].CHANGE_DATE_IN_DST = d}}

\* the dates of a table of version tuples
DatesOf(df) == {df[i].CHANGE_DATE_IN_DST : i \in 1..Len(df)}

RECURSIVE WalkKept(_, _, _, _)
\* the walk over the ascending dates: a date is kept when it is the first
\* with a row key, or when its row keys are not those of the date kept last
WalkKept(df, dates, last, kept) ==
    IF dates = <<>> THEN kept
    ELSE LET d == Head(dates)
             keep == IF last = NaT
                     THEN KeySetAt(df, d) # {}
                     ELSE KeySetAt(df, d) # KeySetAt(df, last)
         IN  IF keep
             THEN WalkKept(df, Tail(dates), d, kept \cup {d})
             ELSE WalkKept(df, Tail(dates), last, kept)

C8_ConsecutiveKeptDatesDiffer ==
    pc = "deduped" =>
        /\ \A d, e \in DatesOf(deduped_versions_df) :
               (d < e /\ ~\E m \in DatesOf(deduped_versions_df) : d < m /\ m < e)
                   => KeySetAt(deduped_versions_df, d) # KeySetAt(deduped_versions_df, e)
        /\ (\A d, e \in DatesOf(versions_full_info_df) :
                KeySetAt(versions_full_info_df, d) = KeySetAt(versions_full_info_df, e))
               => DatesOf(deduped_versions_df) = {Min(DatesOf(versions_full_info_df))}

\* C8: one member with no end, there on three dates of the table: the first
\* of them alone is kept
C8_Witness ==
    /\ pc = "deduped"
    /\ Cardinality(Members) = 1
    /\ \A i \in Members : output_df[i].CHANGE_END_DATE = NaT
    /\ Cardinality(DatesOf(versions_full_info_df)) = 3
    /\ Len(deduped_versions_df) = 1
    /\ deduped_versions_df[1].CHANGE_DATE_IN_DST = Min(GlobalDates)

\* C9: the dates _get_unique_district_versions gives a record are the dates of
\* the list it is given on which the record is active, once each and in the
\* order of the list
C9_VersionsAreTheActiveDates ==
    pc \in {"versions_found", "versions_built", "versions_joined", "deduped"} =>
        \A i \in 1..Len(district_records) :
            \E j \in 1..Len(row_key_and_versions) :
                /\ row_key_and_versions[j].key = district_records[i].UNIQUE_ROW_KEY
                /\ row_key_and_versions[j].value =
                       SelectSeq(unique_change_dates, LAMBDA d : Active(district_records[i], d))
                /\ \A m, n \in 1..Len(row_key_and_versions[j].value) :
                       m # n => row_key_and_versions[j].value[m] # row_key_and_versions[j].value[n]

\* C9: a record with an end, a date of the list before its start, one after
\* its end and one in between, in a list that is not ascending; and a record
\* without end that has a date
C9_Witness ==
    /\ pc = "versions_found"
    /\ \E i \in 1..(Len(unique_change_dates) - 1) :
           unique_change_dates[i] > unique_change_dates[i + 1]
    /\ \E i \in 1..Len(district_records) :
           /\ district_records[i].CHANGE_END_DATE # NaT
           /\ \E d \in Range(unique_change_dates) : d < district_records[i].CHANGE_DATE
           /\ \E d \in Range(unique_change_dates) : d > district_records[i].CHANGE_END_DATE
           /\ \E j \in 1..Len(row_key_and_versions) :
                  /\ row_key_and_versions[j].key = district_records[i].UNIQUE_ROW_KEY
                  /\ Len(row_key_and_versions[j].value) = 1
    /\ \E i \in 1..Len(district_records) :
           /\ district_records[i].CHANGE_END_DATE = NaT
           /\ \E j \in 1..Len(row_key_and_versions) :
                  /\ row_key_and_versions[j].key = district_records[i].UNIQUE_ROW_KEY
                  /\ Len(row_key_and_versions[j].value) >= 1

\* C10: the records of a District are the rows of the table with its label,
\* its dates are the change dates of all rows of the table, and on each of
\* these dates the row keys of its version tuples are those of its members
\* active on that date
C10_MembersOfTheLabelOnAllDates ==
    /\ pc \in {"district", "versions_found", "versions_built", "versions_joined", "deduped"} =>
           /\ Len(district_records) = Cardinality(Members)
           /\ \A i \in 1..Len(district_records) :
                  /\ district_records[i].DST_NUMBER = label
                  /\ \E j \in Members :
                         /\ output_df[j].SHP_KEY = district_records[i].SHP_KEY
                         /\ output_df[j].DST_KEY = district_records[i].DST_KEY
                         /\ output_df[j].CHANGE_DATE = district_records[i].CHANGE_DATE
                         /\ output_df[j].CHANGE_END_DATE = district_records[i].CHANGE_END_DATE
           /\ Range(unique_change_dates) = GlobalDates
    /\ pc \in {"versions_joined", "deduped"} =>
           \A d \in GlobalDates : KeySetAt(versions_full_info_df, d) = Composition(d)

\* C10: a date only a row of another district has, on which one member has
\* left and another stays: the one that left is not among the row keys of
\* that date
C10_Witness ==
    /\ pc = "versions_joined"
    /\ \E d \in GlobalDates :
           /\ \A i \in Members : output_df[i].CHANGE_DATE # d
           /\ \E i, j \in Members :
                  /\ output_df[i].CHANGE_END_DATE = d - 1
                  /\ RowKey(output_df[i]) \in KeySetAt(versions_full_info_df, d - 1)
                  /\ RowKey(output_df[i]) \notin KeySetAt(versions_full_info_df, d)
                  /\ RowKey(output_df[j]) \in KeySetAt(versions_full_info_df, d)

----------------------------------------------------------------------------
(* Claims about the last record of a county. *)

\* the end dates the shape and district rows of a joined row have
EndsOf(r) == {r.END_DATE, r.EndDate} \ {NaT}

\* C11: the last record of an extinct county (its shape key holds 'utt_')
\* ends on the later of the end dates of its shape row and its district row
C11_ExtinctLastRecordEndsOnLaterEnd ==
    (pc = "extra_fields" /\ HasUtt(joined_df[Len(joined_df)].county_version)) =>
        LET r == joined_df[Len(joined_df)]
        IN  /\ EndsOf(r) # {}
            /\ r.change_end_date = Max(EndsOf(r))

\* C11: an extinct county whose last record has a district row that ends
\* later than its shape row, and the record ends with the district row
C11_Witness ==
    /\ pc = "extra_fields"
    /\ Len(joined_df) > 1
    /\ HasUtt(joined_df[Len(joined_df)].county_version)
    /\ joined_df[Len(joined_df)].END_DATE # NaT
    /\ joined_df[Len(joined_df)].EndDate # NaT
    /\ joined_df[Len(joined_df)].END_DATE < joined_df[Len(joined_df)].EndDate
    /\ joined_df[Len(joined_df)].change_end_date = joined_df[Len(joined_df)].EndDate

\* C12: the last record of a county that is not flagged extinct has no end
C12_ExtantLastRecordHasNoEnd ==
    (pc = "extra_fields" /\ ~HasUtt(joined_df[Len(joined_df)].county_version)) =>
        joined_df[Len(joined_df)].change_end_date = NaT

\* C12: a last record without the flag whose shape row and district row both
\* have an end date, and the record has none
C12_Witness ==
    /\ pc = "extra_fields"
    /\ ~HasUtt(joined_df[Len(joined_df)].county_version)
    /\ joined_df[Len(joined_df)].county_version # NA
    /\ joined_df[Len(joined_df)].END_DATE # NaT
    /\ joined_df[Len(joined_df)].EndDate # NaT
    /\ joined_df[Len(joined_df)].change_end_date = NaT

----------------------------------------------------------------------------
(* Claims about County.join_shapes_and_districts. *)

\* the columns of a joined row that come from change_dates_df
ChangeColumns(r) ==
    [change_date |-> r.change_date,
     county_name |-> r.county_name,
     county_version |-> r.county_version,
     district_number |-> r.district_number,
     district_version |-> r.district_version]

\* the columns of a joined row that come from shape_df
ShapeColumns(r) == [shape_key |-> r.shape_key, START_DATE |-> r.START_DATE, END_DATE |-> r.END_DATE]

\* the columns of a joined row that come from district_df
DistrictColumns(r) ==
    [district_key |-> r.district_key, StartDate |-> r.StartDate, EndDate |-> r.EndDate,
     NewDistrict |-> r.NewDistrict]

\* C13: the join raises nothing and leaves one row per change record, in the
\* order of the records; a key that is in a catalog brings the columns of its
\* row, a key that is not (the sentinel) leaves the columns of that catalog
\* null and those of the other catalog as they are
C13_OneJoinedRowPerChangeRecord ==
    /\ pc # "raised"
    /\ pc \in {"joined", "extra_fields"} =>
           /\ Len(joined_df) = Len(change_dates_df)
           /\ \A i \in 1..Len(joined_df) :
                  /\ ChangeColumns(joined_df[i]) = change_dates_df[i]
                  /\ IF joined_df[i].county_version \in {shape_df[j].shape_key : j \in 1..Len(shape_df)}
                     THEN /\ ShapeColumns(joined_df[i]) \in Range(shape_df)
                          /\ joined_df[i].shape_key = joined_df[i].county_version
                     ELSE /\ joined_df[i].shape_key = NaN
                          /\ joined_df[i].START_DATE = NaT
                          /\ joined_df[i].END_DATE = NaT
                  /\ IF joined_df[i].district_version \in {district_df[j].district_key : j \in 1..Len(district_df)}
                     THEN /\ DistrictColumns(joined_df[i]) \in Range(district_df)
                          /\ joined_df[i].district_key = joined_df[i].district_version
                     ELSE /\ joined_df[i].district_key = NaN
                          /\ joined_df[i].NewDistrict = NaN
                          /\ joined_df[i].StartDate = NaT
                          /\ joined_df[i].EndDate = NaT

\* C13: a joined table with a record without shape that has its district
\* row, and a record without district that has its shape row
C13_Witness ==
    /\ pc = "joined"
    /\ \E i \in 1..Len(joined_df) :
           /\ joined_df[i].county_version = NA
           /\ joined_df[i].shape_key = NaN
           /\ joined_df[i].district_key # NaN
           /\ joined_df[i].StartDate # NaT
    /\ \E i \in 1..Len(joined_df) :
           /\ joined_df[i].district_version = NA
           /\ joined_df[i].district_key = NaN
           /\ joined_df[i].shape_key # NaN
           /\ joined_df[i].START_DATE # NaT

\* a key is there more than once
Repeated(keys) == \E i, j \in 1..Len(keys) : i < j /\ keys[i] = keys[j]

\* a catalog of the county has two rows with one version key
KeyRepeated ==
    \/ Repeated([i \in 1..Len(shape_df) |-> shape_df[i].shape_key])
    \/ Repeated([i \in 1..Len(district_df) |-> district_df[i].district_key])

\* C14: with a version key repeated in shape_df or in district_df the join
\* does not return: the county never has a joined table
C14_RepeatedKeyFailsTheJoin ==
    KeyRepeated => /\ pc \in {"setup", "change_dates", "raised"}
                   /\ joined_df = <<>>

\* C14: change records were there to join, a key is repeated, and the join
\* has raised
C14_Witness ==
    /\ pc = "raised"
    /\ Len(change_dates_df) > 0
    /\ KeyRepeated
    /\ joined_df = <<>>

----------------------------------------------------------------------------
(* Claims about a second run of District on its own output. *)

\* the dates remove_duplicate_version_rows has kept
RetainedDates == DatesOf(deduped_versions_df)

\* the day before the next retained date, for a tuple of date d
EndOfRetained(d) ==
    IF \E e \in RetainedDates : e > d
    THEN Min({e \in RetainedDates : e > d}) - 1
    ELSE NaT

\* the table of the second run: every retained tuple as a row of its own,
\* from its date to the day before the next retained date
RerunTable ==
    [i \in 1..Len(deduped_versions_df) |->
        [SHP_KEY |-> deduped_versions_df[i].SHP_KEY,
         DST_KEY |-> deduped_versions_df[i].DST_KEY,
         DST_NUMBER |-> deduped_versions_df[i].DST_NUMBER,
         CHANGE_DATE |-> deduped_versions_df[i].CHANGE_DATE_IN_DST,
         CHANGE_END_DATE |-> EndOfRetained(deduped_versions_df[i].CHANGE_DATE_IN_DST)]]

\* District(label, RerunTable) after find_records_versions
RerunRecords == WithUniqueRowKey(DistrictRecords(RerunTable, label))

RerunVersions ==
    Versions(label,
             RowKeyAndVersions(RerunRecords, DistrictUniqueChangeDates(RerunTable, label),
                               Len(RerunRecords)),
             Len(RerunRecords))

\* the second run's join_version_information raises MergeError
RerunRaises ==
    ~KeysUnique([i \in 1..Len(RerunRecords) |-> RerunRecords[i].UNIQUE_ROW_KEY])

\* the dates the second run keeps
RerunKept ==
    Range(KeptDates([i \in 1..Len(RerunVersions) |->
                        VersionFullInfo(RerunVersions[i], RerunRecords)]))

\* C15: a second run of District on the retained tuples of the first, each
\* as a row that lasts until the next retained date, retains the same dates
C15_RerunRetainsTheSameDates ==
    pc = "deduped" => (~RerunRaises /\ RerunKept = RetainedDates)

----------------------------------------------------------------------------
(* Claims about the rows remove_duplicate_version_rows leaves. *)

\* the dates the walk of C7 keeps of the candidate tuples
WalkDates ==
    WalkKept(versions_full_info_df, SortedSeq(DatesOf(versions_full_info_df)), NaT, {})

\* the places of the candidate tuples of a kept date, ascending
KeptPlaces ==
    SortedSeq({i \in 1..Len(versions_full_info_df) :
                  versions_full_info_df[i].CHANGE_DATE_IN_DST \in WalkDates})

\* C16: the rows of deduped_versions_df are the candidate tuples of the kept
\* dates, all of them, as they were and in the order they had
C16_KeepsAllTuplesOfKeptDates ==
    pc = "deduped" =>
        /\ Len(deduped_versions_df) = Len(KeptPlaces)
        /\ \A n \in 1..Len(KeptPlaces) :
               deduped_versions_df[n] = versions_full_info_df[KeptPlaces[n]]

\* C16: a tuple is dropped, a tuple after it is kept, and a kept date has
\* two tuples
C16_Witness ==
    /\ pc = "deduped"
    /\ \E i, j \in 1..Len(versions_full_info_df) :
           /\ i < j
           /\ versions_full_info_df[i].CHANGE_DATE_IN_DST \notin RetainedDates
           /\ versions_full_info_df[j] \in Range(deduped_versions_df)
    /\ \E m, n \in 1..Len(deduped_versions_df) :
           /\ m < n
           /\ deduped_versions_df[m].CHANGE_DATE_IN_DST = deduped_versions_df[n].CHANGE_DATE_IN_DST

----------------------------------------------------------------------------
(* Claims about calc_change_dates on catalogs that are empty or malformed. *)

\* C17: with no row in shape_df or no row in district_df, calc_change_dates
\* returns, and leaves a change_dates_df without rows
C17_EmptyCatalogGivesEmptyResult ==
    [][(pc = "setup" /\ (Len(shape_df) = 0 \/ Len(district_df) = 0))
           => (pc' = "change_dates" /\ change_dates_df' = <<>>)]_vars

\* the start dates of the two catalogs
AllStarts ==
    {shape_df[i].START_DATE : i \in 1..Len(shape_df)}
        \cup {district_df[i].StartDate : i \in 1..Len(district_df)}

\* the record is what the priority rules give its date, on the rows in the
\* order they have in the catalogs
Resolved(r) ==
    /\ r.county_version =
           IF ShapeCovers(r.change_date) # {}
           THEN shape_df[Min(ShapeCovers(r.change_date))].shape_key
           ELSE NA
    /\ IF DistrictCovers(r.change_date) # {}
       THEN Carries(r, Min(DistrictCovers(r.change_date)))
       ELSE IF RuleB(r.change_date)
       THEN Carries(r, Len(district_df))
       ELSE IF DistrictOpen(r.change_date) # {}
       THEN Carries(r, Max(DistrictOpen(r.change_date)))
       ELSE IsSentinel(r)

\* C18: with rows in both catalogs, in any order and overlapping or not,
\* calc_change_dates returns one record for each distinct start date, and
\* each record is what the priority rules give its date
C18_MalformedCatalogsGiveOneRecordPerStart ==
    (pc # "setup" /\ Len(shape_df) > 0 /\ Len(district_df) > 0) =>
        /\ Len(change_dates_df) = Cardinality(AllStarts)
        /\ {r.change_date : r \in Records} = AllStarts
        /\ \A r \in Records : Resolved(r)

----------------------------------------------------------------------------
(* Claims about State.setup_counties and County.setup. *)

\* setup_counties has returned
CountiesSetUp == pc = "setup_counties"

\* the canonical county key of a row of the districts table
KeyOfRow(i) == county_key_of[all_districts_df[i].CountyName]

\* the first row of the districts table with the key
FirstRowOf(key) == Min({i \in 1..Len(all_districts_df) : KeyOfRow(i) = key})

\* the counties of the name
CountiesNamed(name) == {i \in 1..Len(counties) : counties[i].name = name}

\* C19: setup_counties makes one county for each distinct canonical county key
\* of the districts table, in the order in which the keys first appear; rows
\* named Richland and rows named Rich give the one county rich
C19_OneCountyPerCanonicalKey ==
    CountiesSetUp =>
        /\ {counties[i].name : i \in 1..Len(counties)}
               = {KeyOfRow(i) : i \in 1..Len(all_districts_df)}
        /\ \A i, j \in 1..Len(counties) :
               i < j => FirstRowOf(counties[i].name) < FirstRowOf(counties[j].name)
        /\ CountiesNamed("richland") = {}
        /\ (\E i \in 1..Len(all_districts_df) :
                all_districts_df[i].CountyName \in {"Rich", "Richland"})
               => Cardinality(CountiesNamed("rich")) = 1

\* a table with a row named Richland followed by a row named Rich has given
\* one county, rich, with both rows
C19_Witness ==
    /\ CountiesSetUp
    /\ Len(all_districts_df) = 2
    /\ all_districts_df[1].CountyName = "Richland"
    /\ all_districts_df[2].CountyName = "Rich"
    /\ Len(counties) = 1
    /\ counties[1].name = "rich"
    /\ Len(counties[1].district_df) = 2

\* C20: after County.setup the county's shape_df and district_df hold the
\* rows whose canonical county key is the county's name, and no other row
C20_CatalogsHoldTheRowsOfTheKey ==
    CountiesSetUp =>
        \A i \in 1..Len(counties) :
            /\ Range(counties[i].shape_df)
                   = {r \in Range(all_shapes_df) : r.county_key = counties[i].name}
            /\ Range(counties[i].district_df)
                   = {r \in Range(all_districts_df) : r.county_key = counties[i].name}

----------------------------------------------------------------------------
(* More claims about County.calc_change_dates. *)

\* C21: when no district row holds D between its bounds and the last-row rule
\* does not apply, the record for D carries the last row in catalog order
\* that is open-ended and has started by D, the sentinel when there is none
C21_LastStartedOpenRowOrSentinel ==
    Calculated =>
        \A r \in Records :
            (DistrictCovers(r.change_date) = {} /\ ~RuleB(r.change_date)) =>
                IF DistrictOpen(r.change_date) # {}
                THEN Carries(r, Max(DistrictOpen(r.change_date)))
                ELSE IsSentinel(r)

\* C21's case: at the earliest start two open-ended rows have started, and
\* the record carries the later one and not the earlier
C21_Witness ==
    /\ pc = "change_dates"
    /\ \E r \in Records :
           /\ DistrictCovers(r.change_date) = {}
           /\ ~RuleB(r.change_date)
           /\ r.change_date = EarliestStart
           /\ Cardinality(DistrictOpen(r.change_date)) = 2
           /\ Carries(r, Max(DistrictOpen(r.change_date)))
           /\ ~Carries(r, Min(DistrictOpen(r.change_date)))

\* the shape rows that have no END_DATE and have started by day D
ShapeOpen(D) ==
    {i \in 1..Len(shape_df) : shape_df[i].START_DATE <= D /\ shape_df[i].END_DATE = NaT}

\* C24: no record has the shape_key of a shape row without END_DATE; a date
\* that only such rows have started by has the sentinel for its shape
C24_OpenEndedShapeIsNeverTaken ==
    Calculated =>
        \A r \in Records :
            /\ \A i \in 1..Len(shape_df) :
                   shape_df[i].END_DATE = NaT => r.county_version # shape_df[i].shape_key
            /\ (ShapeOpen(r.change_date) # {} /\ ShapeCovers(r.change_date) = {})
                   => r.county_version = NA

\* C24's case: the record of the start date of a shape row without END_DATE
\* has the sentinel for its shape, and carries a district row without EndDate
C24_Witness ==
    /\ pc = "change_dates"
    /\ \E r \in Records :
           /\ \E i \in ShapeOpen(r.change_date) : shape_df[i].START_DATE = r.change_date
           /\ ShapeCovers(r.change_date) = {}
           /\ r.county_version = NA
           /\ \E j \in DistrictOpen(r.change_date) : Carries(r, j)

\* C23: the district row whose label and key a record carries has started by
\* the record's date and has not ended before it
C23_CarriedDistrictRowHoldsTheDate ==
    Calculated =>
        \A r \in Records :
            ~IsSentinel(r) =>
                \E i \in 1..Len(district_df) :
                    /\ Carries(r, i)
                    /\ district_df[i].StartDate <= r.change_date
                    /\ \/ district_df[i].EndDate = NaT
                       \/ r.change_date <= district_df[i].EndDate

----------------------------------------------------------------------------
(* More claims about the District. *)

\* build_versions_dataframe has returned
VersionsBuilt == pc \in {"versions_built", "versions_joined", "deduped"}

\* the (row key, date) pairs of row_key_and_versions
KeyDatePairs ==
    UNION {{<<row_key_and_versions[j].key, row_key_and_versions[j].value[n]>> :
               n \in 1..Len(row_key_and_versions[j].value)} :
           j \in 1..Len(row_key_and_versions)}

\* C22: versions_df has one tuple for each (row key, date) pair of
\* row_key_and_versions and no other; its version key is the label, '_' and
\* the day, so that two tuples have the same version key exactly when they
\* have the same date
C22_OneTuplePerKeyAndDate ==
    VersionsBuilt =>
        /\ {<<versions_df[i].UNIQUE_ROW_KEY, versions_df[i].CHANGE_DATE_IN_DST>> :
               i \in 1..Len(versions_df)} = KeyDatePairs
        /\ Len(versions_df) = Cardinality(KeyDatePairs)
        /\ \A i \in 1..Len(versions_df) :
               versions_df[i].DST_VERSION_KEY
                   = label \o "_" \o strftime(versions_df[i].CHANGE_DATE_IN_DST)
        /\ \A i, j \in 1..Len(versions_df) :
               (versions_df[i].DST_VERSION_KEY = versions_df[j].DST_VERSION_KEY)
                   <=> (versions_df[i].CHANGE_DATE_IN_DST = versions_df[j].CHANGE_DATE_IN_DST)

\* C22's case: two row keys on one date, and one row key on two dates
C22_Witness ==
    /\ pc = "versions_built"
    /\ \E i, j \in 1..Len(versions_df) :
           /\ versions_df[i].UNIQUE_ROW_KEY # versions_df[j].UNIQUE_ROW_KEY
           /\ versions_df[i].CHANGE_DATE_IN_DST = versions_df[j].CHANGE_DATE_IN_DST
           /\ versions_df[i].DST_VERSION_KEY = versions_df[j].DST_VERSION_KEY
    /\ \E i, j \in 1..Len(versions_df) :
           /\ versions_df[i].UNIQUE_ROW_KEY = versions_df[j].UNIQUE_ROW_KEY
           /\ versions_df[i].CHANGE_DATE_IN_DST # versions_df[j].CHANGE_DATE_IN_DST
           /\ versions_df[i].DST_VERSION_KEY # versions_df[j].DST_VERSION_KEY

\* the dates of deduped_versions_df
Retained == DatesOf(deduped_versions_df)

\* the candidate dates that remove_duplicate_version_rows dropped
Discarded == DatesOf(versions_full_info_df) \ Retained

\* the retained dates before day d
RetainedBefore(d) == {k \in Retained : k < d}

----------------------------------------------------------------------------
(* Claims about the rows a county hands to the districts. *)

\* add_extra_fields has returned
ExtraFieldsAdded == pc = "extra_fields"

\* the rows of the county that the reducer's rule has as members on day d
ActiveRows(d) ==
    {i \in 1..Len(joined_df) :
        GetUniqueDistrictVersions(<<d>>, joined_df[i].change_date,
                                  joined_df[i].change_end_date) # <<>>}

\* C27: on every day at most one row of the county is a member under the
\* reducer's rule
C27_AtMostOneActiveRowPerDay ==
    ExtraFieldsAdded => \A d \in Dates : Cardinality(ActiveRows(d)) <= 1

\* C27's case: a county of three rows; on the day a row begins the row before
\* it is no longer a member, and the last row, without end, is the member on
\* the last day
C27_Witness ==
    /\ ExtraFieldsAdded
    /\ Len(joined_df) = 3
    /\ \A i \in 1..Len(joined_df) : ActiveRows(joined_df[i].change_date) = {i}
    /\ joined_df[3].change_end_date = NaT
    /\ ActiveRows(MaxDate) = {3}

----------------------------------------------------------------------------
(* Claims about the State's run over its counties and districts. *)

\* C25: no tuple of State.district_versions_df is of the district 'n/a', the
\* number of a change date that no district row was assigned to
C25_NoTupleOfTheUnassigned ==
    pc = "combine_district_dicts" =>
        \A i \in 1..Len(district_versions_df) : district_versions_df[i].DST_NUMBER # NA

\* the districts have their records
DistrictsSetUp == pc \in {"setup_districts", "calc_districts_versions", "combine_district_dicts"}

\* C26: no two records of a district have the same UNIQUE_ROW_KEY, and
\* join_version_information does not raise
C26_RowKeysDifferWithinADistrict ==
    /\ DistrictsSetUp =>
           \A k \in 1..Len(state_districts) :
               LET records == WithUniqueRowKey(state_districts[k].district_records)
               IN  KeysUnique([i \in 1..Len(records) |-> records[i].UNIQUE_ROW_KEY])
    /\ ~(pc = "raised" /\ state_districts # <<>>)

\* the change dates of the records of a district
ChangeDatesOf(district) ==
    {district.district_records[i].CHANGE_DATE : i \in 1..Len(district.district_records)}

\* C28: every record of a district of setup_districts is active on its own
\* change date; remove_duplicate_version_rows finds a candidate tuple (it does
\* not raise IndexError); and the earliest retained date of a district is the
\* earliest change date of its records
C28_RecordsAreActiveFromTheirOwnDate ==
    /\ DistrictsSetUp =>
           \A k \in 1..Len(state_districts) :
               \A i \in 1..Len(state_districts[k].district_records) :
                   Active(state_districts[k].district_records[i],
                          state_districts[k].district_records[i].CHANGE_DATE)
    /\ pc = "raised" =>
           \A k \in 1..Len(state_districts) :
               state_districts[k].row_key_and_versions # <<>> =>
                   state_districts[k].versions_df # <<>>
    /\ pc \in {"calc_districts_versions", "combine_district_dicts"} =>
           \A k \in 1..Len(state_districts) :
               /\ state_districts[k].versions_full_info_df # <<>>
               /\ Min(DatesOf(state_districts[k].deduped_versions_df))
                      = Min(ChangeDatesOf(state_districts[k]))

\* a district of two counties is reduced: its records start on different
\* days, one of them ends when its territorial county does, and the first of
\* its retained dates is the earlier day
C28_Witness ==
    /\ pc = "calc_districts_versions"
    /\ Len(counties) = 2
    /\ \E k \in 1..Len(state_districts) :
           /\ Len(state_districts[k].district_records) >= 2
           /\ Cardinality(ChangeDatesOf(state_districts[k])) >= 2
           /\ \E i \in 1..Len(state_districts[k].district_records) :
                  /\ HasUtt(state_districts[k].district_records[i].SHP_KEY)
                  /\ state_districts[k].district_records[i].CHANGE_END_DATE # NaT
                  /\ \A j \in 1..Len(output_df) :
                         output_df[j].DST_KEY = state_districts[k].district_records[i].DST_KEY
                             => output_df[j].CHANGE_DATE
                                    <= state_districts[k].district_records[i].CHANGE_DATE
           /\ Cardinality(DatesOf(state_districts[k].deduped_versions_df)) >= 2

RECURSIVE Reversed(_)
\* a list in the other order
Reversed(s) == IF s = <<>> THEN <<>> ELSE Append(Reversed(Tail(s)), Head(s))

\* the (label, retained date, UNIQUE_ROW_KEY) tuples of a table of version
\* tuples
Tuples(df) ==
    {<<df[i].DST_NUMBER, df[i].CHANGE_DATE_IN_DST, df[i].UNIQUE_ROW_KEY>> : i \in 1..Len(df)}

\* what setup_districts, calc_districts_versions and combine_district_dicts
\* make of the joined rows of the counties cs, appended in the order of cs:
\* the tuples of district_versions_df, or that a district has raised
ReducerOutcome(cs) ==
    LET ds == Districts(OutputDf(cs))
    IN  IF \E k \in 1..Len(ds) : DistrictRaises(ds[k])
        THEN [raised |-> TRUE, tuples |-> {}]
        ELSE [raised |-> FALSE,
              tuples |-> Tuples(DistrictVersionsDf([k \in 1..Len(ds) |-> DedupedOf(ds[k])],
                                                   Len(ds)))]

\* C30: the tuples of district_versions_df are those the reducer makes of the
\* same counties' joined rows appended in the other order; and a district
\* raises in one order when one does in the other
C30_AppendOrderDoesNotChangeTheTuples ==
    /\ pc = "combine_district_dicts" =>
           ReducerOutcome(Reversed(counties))
               = [raised |-> FALSE, tuples |-> Tuples(district_versions_df)]
    /\ (pc = "raised" /\ state_districts # <<>>) =>
           ReducerOutcome(Reversed(counties)).raised

\* two counties share a district, the dates of the table are not in
\* ascending order, and a date of the district is retained and another dropped
C30_Witness ==
    /\ pc = "combine_district_dicts"
    /\ Len(counties) = 2
    /\ \E k \in 1..Len(state_districts) :
           LET district == state_districts[k]
           IN  /\ \E i, j \in 1..Len(district.district_records) :
                      /\ district.district_records[i].SHP_KEY = "uts_ct_S1"
                      /\ district.district_records[j].DST_KEY = DistrictKey(1)
               /\ \E i \in 1..(Len(district.unique_change_dates) - 1) :
                      district.unique_change_dates[i] > district.unique_change_dates[i + 1]
               /\ DatesOf(district.deduped_versions_df) # DatesOf(district.versions_full_info_df)
               /\ Cardinality(DatesOf(district.deduped_versions_df)) >= 2
    /\ OutputDf(Reversed(counties)) # output_df

====
